---- MODULE Spec2Model ----
(***************************************************************************)
(* Model of the Gmail MCP server of src/main.py: the seven tools, of which *)
(* gmail_get_message and gmail_get_thread format what they fetch, the      *)
(* message formatter                                                       *)
(* format_message, the header extractor extract_headers, the recursive    *)
(* part walker extract_email_body / process_part and the body decoder     *)
(* decode_base64; and of with_oauth_retry of the local client              *)
(* src/src/_client.py (specification SpecRetry).                           *)
(*                                                                         *)
(* Python values are modelled as follows.                                  *)
(*   dict      a function whose DOMAIN is the set of keys that are present *)
(*   list      a sequence                                                  *)
(*   str       header names, values, ids: a TLA+ string (atomic);          *)
(*             a base64 blob: a sequence of one-character strings;         *)
(*             decoded text: a sequence of code points                     *)
(*   None      the reserved atom None                                      *)
(*   object identity of the part dicts: a heap of nodes, a part being      *)
(*             referred to by its node id, so that a part graph can share  *)
(*             a part or contain a cycle                                   *)
(***************************************************************************)
EXTENDS Integers, Sequences, FiniteSets, TLC

VARIABLES
    tool,       \* the tool that was invoked
    requests,   \* the requests the tool has passed to ctx.dispatch
    retry,      \* the execution of with_oauth_retry (src/src/_client.py)
    response,   \* the outcome of ctx.dispatch: [success, body]
    heap,       \* node id -> part dict (the part objects of the body)
    pc,         \* position of the tool's execution
    msgs,       \* gmail_get_thread: the list thread["messages"] being read
    idx,        \* gmail_get_thread: index of the message being formatted
    out,        \* gmail_get_thread: the list the comprehension has built
    msg,        \* format_message: its argument
    headers,    \* format_message: the local `headers` (extract_headers' result)
    result,     \* extract_email_body: the accumulator `result`
    stack,      \* the active process_part frames: [node, next]
    callee,     \* the part process_part is about to be called on
    visits,     \* node id -> number of process_part invocations on it in
                \* the current call of extract_email_body
    decoded,    \* decode_base64: input and padded input of the last call
    formatted,  \* format_message: the dict it returned last
    exc,        \* the exception that ended the tool, or "none"
    ret         \* the tool's return value

vars == <<tool, requests, retry, response, heap, pc, msgs, idx, out, msg, headers, result,
          stack, callee, visits, decoded, formatted, exc, ret>>

----------------------------------------------------------------------------
(* Bounds of the model.                                                    *)

\* total number of child references ("parts" entries) in a part graph
MaxEdges == 2
\* length of a header list
MaxHeaders == 3
\* length of a base64 blob in the decoder family of inputs
MaxLen == 5
\* number of messages of a thread
MaxMsgs == 3
\* depth of the interpreter's call stack that process_part frames may reach
\* before Python raises RecursionError (sys.getrecursionlimit(), 1000 by
\* default; any part tree of the model is shallower)
RecursionLimit == 5

\* the node ids of a part graph: a graph of MaxEdges edges reaches at most
\* MaxEdges + 1 nodes from its root
NodeIds == 1 .. (MaxEdges + 1)

----------------------------------------------------------------------------
(* Python dicts.                                                           *)

None == "<None>"

EmptyDict == <<>>

\* d.get(k, def)
Get(d, k, def) == IF k \in DOMAIN d THEN d[k] ELSE def

\* d[k] = v
Put(d, k, v) == (k :> v) @@ d

----------------------------------------------------------------------------
(* decode_base64 (src/main.py:46-52).                                      *)

\* the base64url alphabet, restricted to the characters the model's blobs
\* are written with; every other character is outside the alphabet
B64Value == [S |-> 18, G |-> 6, k |-> 36, Q |-> 16, U |-> 20, I |-> 8]

PadChar == "="

\* "=" * n
Pads(n) == [i \in 1 .. n |-> PadChar]

\* padding = 4 - len(data) % 4
PaddingOf(data) == 4 - (Len(data) % 4)

\* Padded without the test padding != 4
PaddedAlways(data) == data \o Pads(PaddingOf(data))

\* if padding != 4: data += "=" * padding
Padded(data) ==
    IF PaddingOf(data) # 4 THEN data \o Pads(PaddingOf(data)) ELSE data

\* base64.urlsafe_b64decode, i.e. binascii.a2b_base64 in its default
\* (non-strict) mode, scanning s from position i.  quad is the position in
\* the current group of four data characters, left the bits carried over,
\* pads the number of pad characters counted, bytes the output so far.
\* Characters outside the alphabet are skipped; a pad sequence that completes
\* a group ends the scan; data left in an incomplete group is an error
\* (binascii.Error).
RECURSIVE A2B(_, _, _, _, _, _)
A2B(s, i, quad, left, pads, bytes) ==
    IF i > Len(s)
    THEN [ok |-> quad = 0, bytes |-> bytes]
    ELSE IF s[i] = PadChar
    THEN IF quad >= 2 /\ quad + pads + 1 >= 4
         THEN [ok |-> TRUE, bytes |-> bytes]
         ELSE A2B(s, i + 1, quad, left,
                  IF quad >= 2 THEN pads + 1 ELSE pads, bytes)
    ELSE IF s[i] \notin DOMAIN B64Value
    THEN A2B(s, i + 1, quad, left, pads, bytes)
    ELSE LET v == B64Value[s[i]] IN
         CASE quad = 0 -> A2B(s, i + 1, 1, v, 0, bytes)
           [] quad = 1 -> A2B(s, i + 1, 2, v % 16, 0,
                              Append(bytes, left * 4 + (v \div 16)))
           [] quad = 2 -> A2B(s, i + 1, 3, v % 4, 0,
                              Append(bytes, left * 16 + (v \div 4)))
           [] quad = 3 -> A2B(s, i + 1, 0, 0, 0,
                              Append(bytes, left * 64 + v))

UrlsafeB64Decode(s) == A2B(s, 1, 0, 0, 0, <<>>)

\* U+FFFD, what errors="replace" substitutes for an undecodable byte
ReplacementChar == 65533

\* bytes.decode("utf-8", errors="replace").  The alphabet above yields only
\* ASCII bytes and bytes in 0x80..0xBF; the latter are never the start of a
\* valid UTF-8 sequence, so each is replaced on its own.
Utf8Replace(bytes) ==
    [i \in 1 .. Len(bytes) |->
        IF bytes[i] < 128 THEN bytes[i] ELSE ReplacementChar]

\* decode_base64(data): ok is FALSE when urlsafe_b64decode raises
DecodeBase64(data) ==
    LET r == UrlsafeB64Decode(Padded(data)) IN
    [ok |-> r.ok,
     text |-> IF r.ok THEN Utf8Replace(r.bytes) ELSE <<>>,
     data |-> data,
     padded |-> Padded(data)]

----------------------------------------------------------------------------
(* extract_headers (src/main.py:79-86).                                    *)

\* str.lower() on the header names of the model
Lower(name) ==
    CASE name = "From" -> "from"
      [] name = "FROM" -> "from"
      [] name = "Subject" -> "subject"
      [] name = "To" -> "to"
      [] name = "CC" -> "cc"
      [] name = "Date" -> "date"
      [] name = "Bcc" -> "bcc"
      [] name = "X-Mailer" -> "x-mailer"
      [] OTHER -> name

AllowList == {"from", "to", "subject", "date", "cc", "bcc"}

\* HeaderStep keeping the first value of a name instead of the last
HeaderStepFirstWins(header_dict, h) ==
    LET name == Lower(Get(h, "name", "")) IN
    IF name \in AllowList /\ name \notin DOMAIN header_dict
    THEN Put(header_dict, name, Get(h, "value", ""))
    ELSE header_dict

\* one iteration of the loop over headers
HeaderStep(header_dict, h) ==
    LET name == Lower(Get(h, "name", "")) IN
    IF name \in AllowList
    THEN Put(header_dict, name, Get(h, "value", ""))
    ELSE header_dict

RECURSIVE HeaderLoop(_, _, _)
HeaderLoop(hs, i, header_dict) ==
    IF i > Len(hs) THEN header_dict
    ELSE HeaderLoop(hs, i + 1, HeaderStep(header_dict, hs[i]))

ExtractHeaders(hs) == HeaderLoop(hs, 1, EmptyDict)

----------------------------------------------------------------------------
(* The inputs: what ctx.dispatch returns for the invoked tool.             *)

\* json.dumps(v): the serialised form of v
JsonDumps(v) == [json |-> v]

\* the id of no node: stands for the fresh {} that msg.get("payload", {})
\* yields when the message has no payload
NoNode == 0

GetTools == {"gmail_get_message", "gmail_get_thread"}

PassTools == {"gmail_list_messages", "gmail_search_messages",
              "gmail_list_threads", "gmail_list_labels", "gmail_get_profile"}

\* the part dicts of the walker and thread families: "SGk" decodes to "Hi",
\* "QQ" to "A", "QUI" to "AB"; "Q" does not decode
PlainA == [mimeType |-> "text/plain", body |-> [data |-> <<"S", "G", "k">>]]
PlainB == [mimeType |-> "text/plain", body |-> [data |-> <<"Q", "Q">>]]
HtmlC == [mimeType |-> "text/html", body |-> [data |-> <<"Q", "U", "I">>]]
Multi == [mimeType |-> "multipart/alternative"]
PlainBad == [mimeType |-> "text/plain", body |-> [data |-> <<"Q">>]]
Pdf == [mimeType |-> "application/pdf", body |-> [data |-> <<"Q", "Q">>]]

\* the parts a node of the walker family is drawn from
PartKinds == {PlainA, PlainB, HtmlC, Multi, PlainBad, Pdf}

\* the child lists of a graph given as a list of edges <<from, to>>: the
\* children of n are the targets of n's edges, in the order of the list
RECURSIVE KidsIn(_, _)
KidsIn(es, n) ==
    IF es = <<>> THEN <<>>
    ELSE IF Head(es)[1] = n THEN <<Head(es)[2]>> \o KidsIn(Tail(es), n)
    ELSE KidsIn(Tail(es), n)

EdgeLists == UNION {[1 .. m -> NodeIds \X NodeIds] : m \in 0 .. MaxEdges}

RECURSIVE ReachIn(_, _)
ReachIn(es, S) ==
    LET T == S \cup {e[2] : e \in {es[i] : i \in {j \in 1 .. Len(es) : es[j][1] \in S}}}
    IN IF T = S THEN S ELSE ReachIn(es, T)

\* the part graphs rooted at node 1: every edge leaves a reachable node and
\* the reachable nodes are numbered 1..k (graphs that differ only in the
\* numbering of their nodes are the same input)
Graphs ==
    {[n \in ReachIn(es, {1}) |-> KidsIn(es, n)] :
        es \in {e \in EdgeLists :
                  /\ \A i \in 1 .. Len(e) : e[i][1] \in ReachIn(e, {1})
                  /\ ReachIn(e, {1}) = 1 .. Cardinality(ReachIn(e, {1}))}}

\* a part of the given kind with the given children ("parts" is absent when
\* there are none)
MkPart(kind, kids) == IF kids = <<>> THEN kind ELSE Put(kind, "parts", kids)

WalkMsg == [id |-> "m1", threadId |-> "t1", payload |-> 1]

\* the characters of the blobs of the decoder family ("!" is outside the
\* base64url alphabet)
BlobChars == {"Q", "k", "!"}

\* the single parts of the decoder family that carry the blob b
LeafPartsWith(b) ==
    {[mimeType |-> m, body |-> [data |-> b]] :
        m \in {"text/plain", "text/html", "image/png"}}
    \cup {[body |-> [data |-> b]]}

\* the single parts without "data", "body" or "mimeType"
LeafPartsWithout ==
    {[mimeType |-> "text/plain", body |-> EmptyDict], [body |-> EmptyDict],
     [mimeType |-> "text/plain"], [mimeType |-> "text/html"], EmptyDict}

HeaderNames == {"From", "from", "Bcc", "X-Mailer"}

HeaderValues == {"a", "b"}

\* the headers of the header family; one lacks its value, one its name
HeaderPool ==
    {[name |-> n, value |-> v] : n \in HeaderNames, v \in HeaderValues}
    \cup {[name |-> "From"], [value |-> "a"]}

\* the parts of the messages of the thread family
ThreadHeap ==
    [n \in 1 .. 5 |->
        CASE n = 1 -> Put(PlainA, "headers", <<[name |-> "Subject", value |-> "a"],
                                               [name |-> "To", value |-> "b"]>>)
          [] n = 2 -> Put(Put(Multi, "parts", <<3, 4>>), "headers",
                          <<[name |-> "From", value |-> "b"],
                            [name |-> "CC", value |-> "a"],
                            [name |-> "Date", value |-> "a"]>>)
          [] n = 3 -> PlainB
          [] n = 4 -> HtmlC
          [] n = 5 -> PlainBad]

\* the messages of the thread family; the last one has a blob that does not
\* decode
MsgPool ==
    {[id |-> "m1", threadId |-> "t1", labelIds |-> <<"INBOX">>, snippet |-> "s1",
      payload |-> 1],
     [id |-> "m2", threadId |-> "t1", payload |-> 2],
     [id |-> "m3"],
     [snippet |-> "s4", payload |-> 5]}

----------------------------------------------------------------------------
(* The state machine.                                                      *)

\* the part dict a node id refers to
PartAt(n) == IF n = NoNode THEN EmptyDict ELSE heap[n]

\* part.get("parts", [])
PartsOf(n) == Get(PartAt(n), "parts", <<>>)

Top == stack[Len(stack)]

\* the state in which tool t is invoked, r being what ctx.dispatch is going
\* to answer and h the parts of the body
Start(t, r, h) ==
    /\ tool = t
    /\ requests = <<>>
    /\ response = r
    /\ heap = h
    /\ pc = "invoke"
    /\ msgs = <<>>
    /\ idx = 0
    /\ out = <<>>
    /\ msg = EmptyDict
    /\ headers = EmptyDict
    /\ result = [plain |-> <<>>, html |-> <<>>]
    /\ stack = <<>>
    /\ callee = NoNode
    /\ visits = [n \in DOMAIN h \cup {NoNode} |-> 0]
    /\ decoded = EmptyDict
    /\ formatted = EmptyDict
    /\ exc = "none"
    /\ ret = None

Success(b) == [success |-> TRUE, body |-> b]

\* walker family: one message whose payload is any part graph, every node
\* of any kind
InitWalk ==
    \E g \in Graphs : \E lab \in [DOMAIN g -> PartKinds] :
        Start("gmail_get_message", Success(WalkMsg),
              [n \in DOMAIN g |-> MkPart(lab[n], g[n])])

\* decoder family: one message of a single part, with every optional field
\* present or not and every blob of at most MaxLen characters
InitDecode ==
    \/ \E m \in 0 .. MaxLen : \E b \in [1 .. m -> BlobChars] :
         \E p \in LeafPartsWith(b) :
            Start("gmail_get_message", Success(WalkMsg), <<p>>)
    \/ \E p \in LeafPartsWithout :
            Start("gmail_get_message", Success(WalkMsg), <<p>>)

\* header family: one message of a text/plain part with any list of at most
\* MaxHeaders headers
InitHeaders ==
    \E m \in 0 .. MaxHeaders : \E hs \in [1 .. m -> HeaderPool] :
        Start("gmail_get_message", Success(WalkMsg), <<Put(PlainA, "headers", hs)>>)

\* thread family: a thread of at most MaxMsgs messages of the pool, a thread
\* without "messages", and each message of the pool on its own
InitThread ==
    \/ \E m \in 0 .. MaxMsgs : \E ms \in [1 .. m -> MsgPool] :
         Start("gmail_get_thread",
               Success([id |-> "t1", historyId |-> "h1", messages |-> ms]), ThreadHeap)
    \/ Start("gmail_get_thread", Success([id |-> "t1", historyId |-> "h1"]), ThreadHeap)
    \/ \E m \in MsgPool : Start("gmail_get_message", Success(m), ThreadHeap)

\* the remaining outcomes of the dispatch: a failure, an empty body, and the
\* pass-through tools
InitOther ==
    \/ \E t \in GetTools \cup PassTools : \E e \in {"denied", "timeout"} :
         Start(t, [success |-> FALSE, error |-> [message |-> e]], EmptyDict)
    \/ \E t \in GetTools \cup PassTools : Start(t, Success(EmptyDict), EmptyDict)
    \/ \E t \in PassTools : \E b \in {[emailAddress |-> "a"], [resultSizeEstimate |-> 0]} :
         Start(t, Success(b), EmptyDict)

\* with_oauth_retry is not running
RetryIdle == [pc |-> "idle"]

Init ==
    /\ InitWalk \/ InitDecode \/ InitHeaders \/ InitThread \/ InitOther
    /\ retry = RetryIdle

\* f"{max_results}" for the page sizes of the model
Str(n) == CASE n = 1 -> "1" [] n = 10 -> "10" [] n = 100 -> "100"

\* the arguments a tool may be invoked with
ToolArgs ==
    [max_results : {1, 10, 100}, query : {None, "", "is:unread"},
     page_token : {None, "", "p2"}, id : {"x1"}]

\* the query string a list tool builds: a parameter whose argument is falsy
\* (None or "") is left out
Param(name, v) == IF v \in {None, ""} THEN <<>> ELSE << <<name, v>> >>

\* the HttpRequest tool t builds from its arguments a; the path is kept as
\* its resource, the id it names and the list that "&".join(params) joins
Request(t, a) ==
    LET max == << <<"maxResults", Str(a.max_results)>> >>
        q == IF a.query = None THEN "" ELSE a.query
        full == << <<"format", "full">> >>
        Path(res, id, ps) == [resource |-> res, id |-> id, params |-> ps]
    IN [method |-> "GET",
        path |->
          CASE t = "gmail_list_messages" ->
                 Path("messages", None,
                      max \o Param("q", a.query) \o Param("pageToken", a.page_token))
            [] t = "gmail_search_messages" ->
                 Path("messages", None,
                      << <<"q", q>> >> \o max \o Param("pageToken", a.page_token))
            [] t = "gmail_list_threads" ->
                 Path("threads", None,
                      max \o Param("q", a.query) \o Param("pageToken", a.page_token))
            [] t = "gmail_get_message" -> Path("messages", a.id, full)
            [] t = "gmail_get_thread" -> Path("threads", a.id, full)
            [] t = "gmail_list_labels" -> Path("labels", None, <<>>)
            [] t = "gmail_get_profile" -> Path("profile", None, <<>>)]

\* every tool: response = await ctx.dispatch(gmail, HttpRequest(...)), the
\* one place of a tool that dispatches
Dispatch ==
    /\ pc = "invoke"
    /\ \E a \in ToolArgs : requests' = Append(requests, Request(tool, a))
    /\ pc' = "dispatch"
    /\ UNCHANGED <<tool, retry, response, heap, msgs, idx, out, msg, headers, result,
                   stack, callee, visits, decoded, formatted, exc, ret>>

\* a tool as it would be if it raised on an unsuccessful dispatch
ToolErrorRaises ==
    /\ pc = "dispatch"
    /\ ~response.success
    /\ exc' = "Exception"
    /\ pc' = "raised"
    /\ UNCHANGED <<tool, requests, retry, response, heap, msgs, idx, out, msg, headers, result,
                   stack, callee, visits, decoded, formatted, ret>>

\* every tool: if not response.success: return json.dumps({"error": ...})
ToolError ==
    /\ pc = "dispatch"
    /\ ~response.success
    /\ ret' = JsonDumps([error |-> response.error.message])
    /\ pc' = "done"
    /\ UNCHANGED <<tool, requests, retry, response, heap, msgs, idx, out, msg, headers, result,
                   stack, callee, visits, decoded, formatted, exc>>

\* every tool: a successful response whose body is empty gives "{}"
ToolEmpty ==
    /\ pc = "dispatch"
    /\ response.success
    /\ response.body = EmptyDict
    /\ ret' = JsonDumps(EmptyDict)
    /\ pc' = "done"
    /\ UNCHANGED <<tool, requests, retry, response, heap, msgs, idx, out, msg, headers, result,
                   stack, callee, visits, decoded, formatted, exc>>

\* gmail_list_messages, gmail_search_messages, gmail_list_threads,
\* gmail_list_labels, gmail_get_profile: return json.dumps(body)
PassThrough ==
    /\ pc = "dispatch"
    /\ tool \in PassTools
    /\ response.success
    /\ response.body # EmptyDict
    /\ ret' = JsonDumps(response.body)
    /\ pc' = "done"
    /\ UNCHANGED <<tool, requests, retry, response, heap, msgs, idx, out, msg, headers, result,
                   stack, callee, visits, decoded, formatted, exc>>

\* gmail_get_message: formatted = format_message(response.response.body)
GetMessage ==
    /\ pc = "dispatch"
    /\ tool = "gmail_get_message"
    /\ response.success
    /\ response.body # EmptyDict
    /\ msg' = response.body
    /\ pc' = "format"
    /\ UNCHANGED <<tool, requests, retry, response, heap, msgs, idx, out, headers, result,
                   stack, callee, visits, decoded, formatted, exc, ret>>

\* gmail_get_thread as it would be if it rewrote the list of a thread
\* whether the thread has one or not: thread.get("messages", [])
GetThreadAlwaysRewrites ==
    /\ pc = "dispatch"
    /\ tool = "gmail_get_thread"
    /\ response.success
    /\ response.body # EmptyDict
    /\ msgs' = Get(response.body, "messages", <<>>)
    /\ out' = <<>>
    /\ IF msgs' = <<>>
       THEN /\ response' = [response EXCEPT
                              !.body = Put(response.body, "messages", <<>>)]
            /\ ret' = JsonDumps(response'.body)
            /\ pc' = "done"
            /\ UNCHANGED <<idx, msg>>
       ELSE /\ idx' = 1
            /\ msg' = msgs'[1]
            /\ pc' = "format"
            /\ UNCHANGED <<response, ret>>
    /\ UNCHANGED <<tool, requests, retry, heap, headers, result, stack, callee, visits, decoded,
                   formatted, exc>>

\* gmail_get_thread: thread = response.response.body; with a "messages" key
\* the list comprehension starts on its first message (or stores the empty
\* list at once), without it the thread is returned as it is
GetThread ==
    /\ pc = "dispatch"
    /\ tool = "gmail_get_thread"
    /\ response.success
    /\ response.body # EmptyDict
    /\ IF "messages" \in DOMAIN response.body
       THEN /\ msgs' = response.body["messages"]
            /\ out' = <<>>
            /\ IF msgs' = <<>>
               THEN /\ response' = [response EXCEPT
                                      !.body = Put(response.body, "messages", <<>>)]
                    /\ ret' = JsonDumps(response'.body)
                    /\ pc' = "done"
                    /\ UNCHANGED <<idx, msg>>
               ELSE /\ idx' = 1
                    /\ msg' = msgs'[1]
                    /\ pc' = "format"
                    /\ UNCHANGED <<response, ret>>
       ELSE /\ ret' = JsonDumps(response.body)
            /\ pc' = "done"
            /\ UNCHANGED <<response, msgs, idx, out, msg>>
    /\ UNCHANGED <<tool, requests, retry, heap, headers, result, stack, callee, visits, decoded,
                   formatted, exc>>

\* the accumulator as it would be if extract_email_body kept the dict of
\* the call before (a default argument or a module-level dict)
StaleResult == result

\* extract_email_body: result = {"plain": "", "html": ""}, a new dict in
\* every call
NewResult == [plain |-> <<>>, html |-> <<>>]

\* format_message, up to the call process_part(payload) in
\* extract_email_body
FormatMessage ==
    /\ pc = "format"
    /\ LET payload == Get(msg, "payload", NoNode) IN
        /\ headers' = ExtractHeaders(Get(PartAt(payload), "headers", <<>>))
        /\ callee' = payload
    /\ result' = NewResult
    /\ stack' = <<>>
    /\ visits' = [n \in DOMAIN visits |-> 0]
    /\ pc' = "call"
    /\ UNCHANGED <<tool, requests, retry, response, heap, msgs, idx, out, msg, decoded,
                   formatted, exc, ret>>

\* Assign with the first text of a type kept instead of the last
AssignFirstWins(res, mime_type, d) ==
    IF mime_type = "text/plain" /\ res.plain = <<>> THEN [res EXCEPT !.plain = d]
    ELSE IF mime_type = "text/html" /\ res.html = <<>> THEN [res EXCEPT !.html = d]
    ELSE res

\* Assign with a text/plain part resetting the html text
AssignClobber(res, mime_type, d) ==
    IF mime_type = "text/plain" THEN [plain |-> d, html |-> <<>>]
    ELSE IF mime_type = "text/html" THEN [res EXCEPT !.html = d]
    ELSE res

\* the assignments of process_part to result, d being the decoded blob of a
\* part of type mime_type
Assign(res, mime_type, d) ==
    IF mime_type = "text/plain" THEN [res EXCEPT !.plain = d]
    ELSE IF mime_type = "text/html" THEN [res EXCEPT !.html = d]
    ELSE res

\* a call of process_part(callee): the interpreter refuses a frame beyond
\* its recursion limit; otherwise the body runs up to the loop over the
\* sub-parts, and a blob that does not decode raises out of the tool
ProcessPart ==
    /\ pc = "call"
    /\ IF Len(stack) >= RecursionLimit
       THEN /\ exc' = "RecursionError"
            /\ pc' = "raised"
            /\ UNCHANGED <<result, stack, visits, decoded>>
       ELSE LET part == PartAt(callee)
                mime_type == Get(part, "mimeType", "")
                body == Get(part, "body", EmptyDict)
                data == Get(body, "data", <<>>)
                d == DecodeBase64(data)
            IN  /\ visits' = [visits EXCEPT ![callee] = @ + 1]
                /\ IF data = <<>>
                   THEN /\ stack' = Append(stack, [node |-> callee, next |-> 1])
                        /\ pc' = "loop"
                        /\ UNCHANGED <<result, decoded, exc>>
                   ELSE /\ decoded' = d
                        /\ IF d.ok
                           THEN /\ result' = Assign(result, mime_type, d.text)
                                /\ stack' = Append(stack, [node |-> callee, next |-> 1])
                                /\ pc' = "loop"
                                /\ UNCHANGED exc
                           ELSE /\ exc' = "binascii.Error"
                                /\ pc' = "raised"
                                /\ UNCHANGED <<result, stack>>
    /\ UNCHANGED <<tool, requests, retry, response, heap, msgs, idx, out, msg, headers, callee,
                   formatted, ret>>

\* for subpart in part.get("parts", []): process_part(subpart)
NextSubpart ==
    /\ pc = "loop"
    /\ Top.next <= Len(PartsOf(Top.node))
    /\ callee' = PartsOf(Top.node)[Top.next]
    /\ stack' = [stack EXCEPT ![Len(stack)].next = @ + 1]
    /\ pc' = "call"
    /\ UNCHANGED <<tool, requests, retry, response, heap, msgs, idx, out, msg, headers, result,
                   visits, decoded, formatted, exc, ret>>

\* the loop of a process_part frame is exhausted: the call returns, to the
\* caller's loop or, for the outermost call, to extract_email_body
ReturnPart ==
    /\ pc = "loop"
    /\ Top.next > Len(PartsOf(Top.node))
    /\ stack' = SubSeq(stack, 1, Len(stack) - 1)
    /\ pc' = IF Len(stack) = 1 THEN "built" ELSE "loop"
    /\ UNCHANGED <<tool, requests, retry, response, heap, msgs, idx, out, msg, headers, result,
                   callee, visits, decoded, formatted, exc, ret>>

\* the dict format_message returns
Formatted(m, hdrs, body) ==
    [id |-> Get(m, "id", None),
     threadId |-> Get(m, "threadId", None),
     labelIds |-> Get(m, "labelIds", <<>>),
     snippet |-> Get(m, "snippet", ""),
     from |-> Get(hdrs, "from", ""),
     to |-> Get(hdrs, "to", ""),
     cc |-> Get(hdrs, "cc", ""),
     subject |-> Get(hdrs, "subject", ""),
     date |-> Get(hdrs, "date", ""),
     body_plain |-> body["plain"],
     body_html |-> body["html"]]

\* Collect putting the new element in front
CollectFront(lst, item) == <<item>> \o lst

\* the list comprehension of gmail_get_thread adds the next element
Collect(lst, item) == Append(lst, item)

\* extract_email_body has returned result: format_message returns its dict,
\* to gmail_get_message, which returns it serialised, or to the list
\* comprehension of gmail_get_thread, which goes on with the next message
\* or stores the list in the thread and returns the thread serialised
BuildMessage ==
    /\ pc = "built"
    /\ formatted' = Formatted(msg, headers, result)
    /\ IF tool = "gmail_get_message"
       THEN /\ ret' = JsonDumps(formatted')
            /\ pc' = "done"
            /\ UNCHANGED <<response, idx, out, msg>>
       ELSE /\ out' = Collect(out, formatted')
            /\ IF idx < Len(msgs)
               THEN /\ idx' = idx + 1
                    /\ msg' = msgs[idx + 1]
                    /\ pc' = "format"
                    /\ UNCHANGED <<response, ret>>
               ELSE /\ response' = [response EXCEPT
                                      !.body = Put(response.body, "messages", out')]
                    /\ ret' = JsonDumps(response'.body)
                    /\ pc' = "done"
                    /\ UNCHANGED <<idx, msg>>
    /\ UNCHANGED <<tool, requests, retry, heap, msgs, headers, result, stack, callee, visits,
                   decoded, exc>>

Next ==
    \/ Dispatch
    \/ ToolError
    \/ ToolEmpty
    \/ PassThrough
    \/ GetMessage
    \/ GetThread
    \/ FormatMessage
    \/ ProcessPart
    \/ NextSubpart
    \/ ReturnPart
    \/ BuildMessage

Spec == Init /\ [][Next]_vars

----------------------------------------------------------------------------
(* with_oauth_retry of src/src/_client.py.  The local client is a program  *)
(* of its own: in its executions (SpecRetry) the variables of the server   *)
(* keep their initial values.  The body of an AuthenticationError is what  *)
(* the API answered, any JSON value; a value is kept with its Python type  *)
(* so that isinstance and attribute access can be modelled.                *)

toolvars == <<tool, requests, response, heap, pc, msgs, idx, out, msg, headers, result,
              stack, callee, visits, decoded, formatted, exc, ret>>

PyNone == [type |-> "NoneType", str |-> "", items |-> <<>>]
PyStr(s) == [type |-> "str", str |-> s, items |-> <<>>]
PyDict(d) == [type |-> "dict", str |-> "", items |-> d]

\* bool(v)
Truthy(v) ==
    CASE v.type = "NoneType" -> FALSE
      [] v.type = "str" -> v.str # ""
      [] v.type = "dict" -> v.items # <<>>

\* d.get(key, default) on a dict d
PyGet(d, key, default) == Get(d.items, key, default)

\* the bodies an AuthenticationError may carry
ErrorBodies ==
    LET u1 == PyStr("https://as/connect/1")
        u2 == PyStr("https://as/connect/2")
    IN {PyNone,
        PyStr("Unauthorized"),
        PyDict(EmptyDict),
        PyDict([connect_url |-> u1]),
        PyDict([connect_url |-> PyStr("")]),
        PyDict([connect_url |-> PyNone, detail |-> PyDict([connect_url |-> u2])]),
        PyDict([detail |-> PyDict([connect_url |-> u2])]),
        PyDict([detail |-> PyDict([connect_url |-> PyStr("")])]),
        PyDict([detail |-> PyDict(EmptyDict)]),
        PyDict([detail |-> PyStr("Invalid API key")]),
        PyDict([detail |-> PyNone]),
        PyDict([connect_url |-> u1, detail |-> PyStr("Invalid API key")]),
        PyDict([connect_url |-> u1, detail |-> PyDict([connect_url |-> u2])])}

\* what one call of fn may do: return a value or raise
Returns(v) == [kind |-> "return", value |-> v, body |-> PyNone]
Raises(k, b) == [kind |-> k, value |-> "", body |-> b]

OtherErrors == {"RateLimitError", "APIConnectionError"}

FnOutcomes ==
    {Returns(v) : v \in {"r1", "r2"}}
        \cup {Raises("AuthenticationError", b) : b \in ErrorBodies}
        \cup {Raises(k, PyNone) : k \in OtherErrors}

\* with_oauth_retry has been called with a function fn whose successive
\* calls will end as f1 and f2
InitRetry ==
    /\ Start("none", Success(EmptyDict), EmptyDict)
    /\ \E f1, f2 \in FnOutcomes :
          retry = [pc |-> "try", fn |-> <<f1, f2>>, calls |-> 0, e |-> Returns(""),
                   url |-> PyNone, browser |-> <<>>, confirmed |-> FALSE,
                   exc |-> "none", ret |-> ""]

\* try: return await fn()  /  except AuthenticationError as e
CallFn ==
    /\ retry.pc = "try"
    /\ LET o == retry.fn[1] IN
         retry' = CASE o.kind = "return" ->
                         [retry EXCEPT !.calls = 1, !.ret = o.value, !.pc = "returned"]
                    [] o.kind = "AuthenticationError" ->
                         [retry EXCEPT !.calls = 1, !.e = o, !.pc = "except"]
                    [] OTHER ->
                         [retry EXCEPT !.calls = 1, !.exc = o.kind, !.pc = "raised"]
    /\ UNCHANGED toolvars

\* body = e.body if isinstance(e.body, dict) else {}
\* url = body.get("connect_url") or body.get("detail", {}).get("connect_url")
\* if not url: raise
\* (.get on a detail that is not a dict is an AttributeError)
ExtractUrl ==
    /\ retry.pc = "except"
    /\ LET body == IF retry.e.body.type = "dict" THEN retry.e.body ELSE PyDict(EmptyDict)
           top == PyGet(body, "connect_url", PyNone)
           detail == PyGet(body, "detail", PyDict(EmptyDict))
           url == IF Truthy(top) THEN top ELSE PyGet(detail, "connect_url", PyNone)
       IN retry' =
            IF ~Truthy(top) /\ detail.type # "dict"
            THEN [retry EXCEPT !.exc = "AttributeError", !.pc = "raised"]
            ELSE IF ~Truthy(url)
                 THEN [retry EXCEPT !.exc = "AuthenticationError", !.pc = "raised"]
                 ELSE [retry EXCEPT !.url = url, !.pc = "open"]
    /\ UNCHANGED toolvars

\* webbrowser.open(url)
OpenBrowser ==
    /\ retry.pc = "open"
    /\ retry' = [retry EXCEPT !.browser = Append(@, retry.url), !.pc = "input"]
    /\ UNCHANGED toolvars

\* input("Press Enter after completing OAuth in browser..."): the user
\* presses Enter
PressEnter ==
    /\ retry.pc = "input"
    /\ retry' = [retry EXCEPT !.confirmed = TRUE, !.pc = "again"]
    /\ UNCHANGED toolvars

\* input(...) on a standard input that is at its end
InputEOF ==
    /\ retry.pc = "input"
    /\ retry' = [retry EXCEPT !.exc = "EOFError", !.pc = "raised"]
    /\ UNCHANGED toolvars

\* return await fn(), in the handler: nothing catches what it raises
CallFnAgain ==
    /\ retry.pc = "again"
    /\ LET o == retry.fn[2] IN
         retry' = IF o.kind = "return"
                  THEN [retry EXCEPT !.calls = 2, !.ret = o.value, !.pc = "returned"]
                  ELSE [retry EXCEPT !.calls = 2, !.exc = o.kind, !.pc = "raised"]
    /\ UNCHANGED toolvars

NextRetry ==
    \/ CallFn
    \/ ExtractUrl
    \/ OpenBrowser
    \/ PressEnter
    \/ InputEOF
    \/ CallFnAgain

SpecRetry == InitRetry /\ [][NextRetry]_vars

----------------------------------------------------------------------------
(* Notions the properties are stated with.                                 *)

\* the root part of the message being formatted
Root == Get(msg, "payload", NoNode)

Range(f) == {f[i] : i \in DOMAIN f}

Max(S) == CHOOSE x \in S : \A y \in S : y <= x

\* the nodes reachable from the nodes of S through "parts"
RECURSIVE ReachFrom(_)
ReachFrom(S) ==
    LET T == S \cup UNION {Range(PartsOf(n)) : n \in S}
    IN IF T = S THEN S ELSE ReachFrom(T)

\* the places <<m, i>> of the graph under r that refer to node n
RefsTo(r, n) ==
    {p \in UNION {{<<m, i>> : i \in 1 .. Len(PartsOf(m))} : m \in ReachFrom({r})} :
        PartsOf(p[1])[p[2]] = n}

\* the part graph under r is a tree: nothing refers to the root and exactly
\* one place refers to every other node
IsTree(r) ==
    \A n \in ReachFrom({r}) :
        Cardinality(RefsTo(r, n)) = IF n = r THEN 0 ELSE 1

\* the nodes of the forest ns in depth-first pre-order, siblings in input
\* order (defined on trees)
RECURSIVE PreOrder(_)
PreOrder(ns) ==
    IF ns = <<>> THEN <<>>
    ELSE <<Head(ns)>> \o PreOrder(PartsOf(Head(ns))) \o PreOrder(Tail(ns))

MimeOf(n) == Get(PartAt(n), "mimeType", "")

BlobOf(n) == Get(Get(PartAt(n), "body", EmptyDict), "data", <<>>)

TextOf(n) == DecodeBase64(BlobOf(n)).text

\* the text of the last node in pre-order under r whose type is exactly
\* mime and whose blob is non-empty, "" when there is none
LastText(r, mime) ==
    LET po == PreOrder(<<r>>)
        I == {i \in 1 .. Len(po) : MimeOf(po[i]) = mime /\ BlobOf(po[i]) # <<>>}
    IN IF I = {} THEN <<>> ELSE TextOf(po[Max(I)])

----------------------------------------------------------------------------
\* C1: when extract_email_body returns for a part tree, `plain` is the
\* decoded body of the last node in pre-order (siblings in input order) of
\* type text/plain with a non-empty blob, "" if there is none; likewise
\* `html` for text/html.
C1_LastWriteWins ==
    (pc = "built" /\ IsTree(Root)) =>
        /\ result.plain = LastText(Root, "text/plain")
        /\ result.html = LastText(Root, "text/html")

\* a root with two text/plain children [A, B] of different content has been
\* walked and `plain` is B's content
C1_Witness ==
    /\ pc = "built"
    /\ IsTree(Root)
    /\ Len(PartsOf(Root)) = 2
    /\ LET a == PartsOf(Root)[1]
           b == PartsOf(Root)[2]
       IN /\ MimeOf(a) = "text/plain" /\ MimeOf(b) = "text/plain"
          /\ BlobOf(a) # <<>> /\ BlobOf(b) # <<>>
          /\ TextOf(a) # TextOf(b)
          /\ result.plain = TextOf(b)

----------------------------------------------------------------------------
\* C2: a decode failure on one part never aborts the walk: after a blob has
\* failed to decode the tool has not ended in an exception.
C2_DecodeFailureNeverAborts ==
    (decoded # EmptyDict /\ ~decoded.ok) => pc # "raised"

----------------------------------------------------------------------------
\* C3: the walker reaches completion on every part structure, a graph with
\* a shared part or a cycle included: process_part is never ended by the
\* interpreter's recursion limit.
C3_WalkerTerminates ==
    exc # "RecursionError"

----------------------------------------------------------------------------
\* the spellings of an allow-list name that compare equal to it when case is
\* ignored, among the header names of the model
Spellings(key) ==
    CASE key = "from" -> {"from", "From", "FROM"}
      [] key = "to" -> {"to", "To"}
      [] key = "subject" -> {"subject", "Subject"}
      [] key = "date" -> {"date", "Date"}
      [] key = "cc" -> {"cc", "CC"}
      [] key = "bcc" -> {"bcc", "Bcc"}

\* the header list extract_headers was called with
HeaderList == Get(PartAt(Root), "headers", <<>>)

\* the positions of the pairs of hs whose name is key, case ignored
Occurrences(hs, key) ==
    {i \in 1 .. Len(hs) : "name" \in DOMAIN hs[i] /\ hs[i]["name"] \in Spellings(key)}

\* C4: extract_headers returns a mapping whose keys are exactly the
\* allow-list names that occur in the input, case ignored, each with the
\* unmodified value of the last pair of that name; other names never appear
\* as keys and no input raises.
C4_HeadersLastWins ==
    pc \in {"call", "loop", "built"} =>
        /\ DOMAIN headers = {key \in AllowList : Occurrences(HeaderList, key) # {}}
        /\ \A key \in DOMAIN headers :
              headers[key] = Get(HeaderList[Max(Occurrences(HeaderList, key))], "value", "")
        /\ exc = "none"

\* extract_headers has run on a list in which "From" and "from" carry
\* different values and a name outside the allow-list occurs, and the value
\* kept is the later one
C4_Witness ==
    /\ pc = "built"
    /\ Len(HeaderList) = 3
    /\ \E i, j, l \in 1 .. 3 :
          /\ i < j
          /\ HeaderList[i] = [name |-> "From", value |-> "a"]
          /\ HeaderList[j] = [name |-> "from", value |-> "b"]
          /\ HeaderList[l] = [name |-> "X-Mailer", value |-> "a"]
    /\ headers = [from |-> "b"]

----------------------------------------------------------------------------
\* C5: decode_base64 appends exactly (4 - (n mod 4)) mod 4 pad characters to
\* an input of length n before decoding (0, 3, 2, 1 for n mod 4 = 0, 1, 2,
\* 3), so that the padded length is a multiple of 4.
C5_PaddingLaw ==
    decoded # EmptyDict =>
        LET n == Len(decoded.data)
            added == Len(decoded.padded) - n
        IN /\ added = (4 - (n % 4)) % 4
           /\ added = CASE n % 4 = 0 -> 0
                        [] n % 4 = 1 -> 3
                        [] n % 4 = 2 -> 2
                        [] n % 4 = 3 -> 1
           /\ decoded.padded = decoded.data \o [i \in 1 .. added |-> "="]
           /\ Len(decoded.padded) % 4 = 0

\* a blob of four characters has been decoded with no padding added
C5_Witness ==
    /\ decoded # EmptyDict
    /\ Len(decoded.data) = 4
    /\ decoded.padded = decoded.data

----------------------------------------------------------------------------
\* what format_message gives for message m, stated from the parts: the
\* copied fields, the last header of each name, the last text of each type
ExpectedHeader(hs, key) ==
    IF Occurrences(hs, key) = {} THEN ""
    ELSE Get(hs[Max(Occurrences(hs, key))], "value", "")

ExpectedMessage(m) ==
    LET r == Get(m, "payload", NoNode)
        hs == Get(PartAt(r), "headers", <<>>)
    IN [id |-> Get(m, "id", None),
        threadId |-> Get(m, "threadId", None),
        labelIds |-> Get(m, "labelIds", <<>>),
        snippet |-> Get(m, "snippet", ""),
        from |-> ExpectedHeader(hs, "from"),
        to |-> ExpectedHeader(hs, "to"),
        cc |-> ExpectedHeader(hs, "cc"),
        subject |-> ExpectedHeader(hs, "subject"),
        date |-> ExpectedHeader(hs, "date"),
        body_plain |-> LastText(r, "text/plain"),
        body_html |-> LastText(r, "text/html")]

\* gmail_get_thread has returned a thread whose body had a "messages" list
ThreadReturned ==
    /\ tool = "gmail_get_thread"
    /\ pc = "done"
    /\ response.success
    /\ "messages" \in DOMAIN response.body

\* C6: gmail_get_thread replaces a list of n raw messages by a list of
\* exactly n normalized messages, position i being format_message of input
\* message i: nothing dropped, duplicated or reordered.
C6_ThreadOrderPreserved ==
    ThreadReturned =>
        LET o == ret.json["messages"] IN
        /\ Len(o) = Len(msgs)
        /\ \A i \in 1 .. Len(msgs) : o[i] = ExpectedMessage(msgs[i])
        /\ response.body["messages"] = o

\* a thread with the messages [m3, m1, m2] has been returned with the ids
\* [m3, m1, m2]
C6_Witness ==
    /\ ThreadReturned
    /\ [i \in 1 .. Len(msgs) |-> Get(msgs[i], "id", None)] = <<"m3", "m1", "m2">>
    /\ [i \in 1 .. Len(ret.json["messages"]) |-> ret.json["messages"][i]["id"]]
          = <<"m3", "m1", "m2">>

----------------------------------------------------------------------------
\* a part that counts as an attachment: not a multipart container, carrying
\* body data, of a type other than text/plain and text/html
IsAttachment(n) ==
    /\ PartsOf(n) = <<>>
    /\ BlobOf(n) # <<>>
    /\ MimeOf(n) \notin {"text/plain", "text/html"}

\* C7: the message format_message returns carries a boolean has_attachments,
\* true exactly when some part under the root is an attachment.
C7_HasAttachments ==
    (tool = "gmail_get_message" /\ pc = "done" /\ formatted # EmptyDict) =>
        /\ "has_attachments" \in DOMAIN formatted
        /\ formatted["has_attachments"] = (\E n \in ReachFrom({Root}) : IsAttachment(n))

----------------------------------------------------------------------------
\* format_message is over for the message: it has returned or raised
FormatOver ==
    /\ tool = "gmail_get_message"
    /\ response.success
    /\ response.body # EmptyDict
    /\ pc \in {"done", "raised"}

IsString(x) == x \in STRING /\ x # None

IsText(x) == DOMAIN x = 1 .. Len(x)

\* C8: for every message, whichever optional fields are missing,
\* format_message returns without error, with from, to, cc, subject, date,
\* snippet, body_plain and body_html strings (never null) and labelIds a
\* sequence.
C8_Defaulting ==
    (FormatOver /\ IsTree(Root)) =>
        /\ pc = "done"
        /\ exc = "none"
        /\ \A f \in {"from", "to", "cc", "subject", "date", "snippet"} :
              IsString(formatted[f])
        /\ IsText(formatted["body_plain"])
        /\ IsText(formatted["body_html"])
        /\ IsText(formatted["labelIds"])

----------------------------------------------------------------------------
\* C9: on every part tree the walker visits every node exactly once: when
\* the walk is over, process_part was invoked once on every node under the
\* root, and as many times as there are nodes.
C9_EveryNodeOnce ==
    (FormatOver /\ IsTree(Root)) =>
        /\ \A n \in ReachFrom({Root}) : visits[n] = 1
        /\ \A n \in DOMAIN visits \ ReachFrom({Root}) : visits[n] = 0

----------------------------------------------------------------------------
\* a step in which process_part ran its body on the part `callee`
Visited == visits' # visits /\ pc = "call"

\* the root is a multipart/alternative container of exactly one text/plain
\* and one text/html leaf, p and h, each with a blob that decodes
Alternative(p, h) ==
    /\ MimeOf(Root) = "multipart/alternative"
    /\ BlobOf(Root) = <<>>
    /\ Range(PartsOf(Root)) = {p, h}
    /\ Len(PartsOf(Root)) = 2
    /\ p # h
    /\ PartsOf(p) = <<>> /\ PartsOf(h) = <<>>
    /\ MimeOf(p) = "text/plain" /\ BlobOf(p) # <<>> /\ DecodeBase64(BlobOf(p)).ok
    /\ MimeOf(h) = "text/html" /\ BlobOf(h) # <<>> /\ DecodeBase64(BlobOf(h)).ok

\* C10: visiting a part changes at most the output field of its type: a
\* text/plain part leaves html unchanged, a text/html part leaves plain
\* unchanged, any other part (or one with an empty blob) leaves both
\* unchanged; and a multipart/alternative root with one text/plain and one
\* text/html child, in either order, yields both texts.
C10_VisitFrame ==
    /\ [][Visited =>
            /\ MimeOf(callee) = "text/plain" => result'.html = result.html
            /\ MimeOf(callee) = "text/html" => result'.plain = result.plain
            /\ (MimeOf(callee) \notin {"text/plain", "text/html"} \/ BlobOf(callee) = <<>>)
                  => result' = result]_vars
    /\ [](\A p, h \in DOMAIN heap :
            (pc = "done" /\ tool = "gmail_get_message" /\ Alternative(p, h)) =>
                /\ formatted["body_plain"] = TextOf(p)
                /\ formatted["body_html"] = TextOf(h)
                /\ TextOf(p) # <<>> /\ TextOf(h) # <<>>)

\* a multipart/alternative root whose children are the text/html part and
\* then the text/plain part has been formatted
C10_Witness ==
    /\ pc = "done"
    /\ tool = "gmail_get_message"
    /\ \E p, h \in DOMAIN heap :
          /\ Alternative(p, h)
          /\ PartsOf(Root) = <<h, p>>
          /\ formatted["body_plain"] = TextOf(p)
          /\ formatted["body_html"] = TextOf(h)

----------------------------------------------------------------------------
(* What remains of the defaulting and visiting properties in the runs in   *)
(* which no blob fails to decode, and on every run.                        *)

DecodeFailed == exc = "binascii.Error"

\* unless a blob fails to decode, format_message returns for every message
\* of a part tree, with strings, texts and a sequence in the fields named
DefaultingWhenDecodable == ~DecodeFailed => C8_Defaulting

\* unless a blob fails to decode, a finished walk of a part tree has visited
\* every node under the root exactly once
EveryNodeOnceWhenDecodable == ~DecodeFailed => C9_EveryNodeOnce

\* no node of a part tree is ever visited twice
NoNodeTwice ==
    (pc \in {"call", "loop", "built"} /\ IsTree(Root)) =>
        \A n \in DOMAIN visits : visits[n] <= 1

----------------------------------------------------------------------------
(* C11: when the body of the thread that the dispatch returned has no      *)
(* "messages" key, gmail_get_thread returns the serialisation of that very *)
(* body, every field as it was and no "messages" key added, and leaves the *)
(* body as it was; and for a thread whose message list is missing or empty *)
(* the tool returns in that one step, with no exception and no error       *)
(* object.                                                                 *)

\* gmail_get_thread is about to look at a body that is not empty
ThreadAnswered ==
    /\ pc = "dispatch"
    /\ tool = "gmail_get_thread"
    /\ response.success
    /\ response.body # EmptyDict

C11_NoMessagesKey ==
    /\ [][(ThreadAnswered /\ "messages" \notin DOMAIN response.body)
            => /\ ret' = JsonDumps(response.body)
               /\ "messages" \notin DOMAIN ret'.json
               /\ response' = response
               /\ pc' = "done"
               /\ exc' = "none"]_vars
    /\ [][(ThreadAnswered /\ Get(response.body, "messages", <<>>) = <<>>)
            => /\ pc' = "done"
               /\ exc' = "none"
               /\ "error" \notin DOMAIN ret'.json]_vars
    /\ []((tool = "gmail_get_thread" /\ response.success
            /\ Get(response.body, "messages", <<>>) = <<>>)
            => pc # "raised" /\ exc = "none")

\* the thread without "messages" has been returned
C11_Witness ==
    /\ tool = "gmail_get_thread"
    /\ pc = "done"
    /\ "messages" \notin DOMAIN response.body
    /\ ret = JsonDumps([id |-> "t1", historyId |-> "h1"])

----------------------------------------------------------------------------
(* C12: format_message is pure and deterministic.  In a thread, in which   *)
(* format_message is called once per message, two calls on the same        *)
(* message give the same output whatever was formatted in between; every   *)
(* output is what its own message determines (ExpectedMessage), so that no *)
(* text of an earlier message shows in it; and the steps of                *)
(* format_message change neither the message it was given, nor a part of   *)
(* it, nor the list and the body the message sits in.                      *)

\* format_message, or a function it calls, is running
Formatting == pc \in {"format", "call", "loop", "built"}

C12_FormatMessagePure ==
    /\ []((tool = "gmail_get_thread" /\ Len(out) <= Len(msgs)) =>
            /\ \A i, j \in 1 .. Len(out) : msgs[i] = msgs[j] => out[i] = out[j]
            /\ \A i \in 1 .. Len(out) : out[i] = ExpectedMessage(msgs[i]))
    /\ []((tool = "gmail_get_message" /\ pc = "done" /\ formatted # EmptyDict
            /\ IsTree(Root)) => formatted = ExpectedMessage(msg))
    /\ [][Formatting =>
            /\ heap' = heap
            /\ msgs' = msgs
            /\ pc # "built" => (msg' = msg /\ response' = response /\ out' = out)]_vars

\* a thread [a, b, a] has been formatted: a has a text/plain body, b has no
\* body, the two outputs for a are the same and the output for b is empty
C12_Witness ==
    /\ tool = "gmail_get_thread"
    /\ pc = "done"
    /\ Len(msgs) = 3 /\ Len(out) = 3
    /\ msgs[1] = msgs[3] /\ msgs[2] # msgs[1]
    /\ "payload" \notin DOMAIN msgs[2]
    /\ out[1] = out[3]
    /\ out[1].body_plain # <<>>
    /\ out[2].body_plain = <<>>

----------------------------------------------------------------------------
(* C13: every tool dispatches exactly one request per invocation, a GET,   *)
(* and what it does next is decided by the outcome.  After an unsuccessful *)
(* dispatch it returns the object {"error": message}, raises nothing and   *)
(* never enters format_message; after a success with an empty body it      *)
(* returns "{}"; format_message runs, and a body is passed through, only   *)
(* after a success with a body that is not empty: the pass-through tools   *)
(* return that body, gmail_get_message returns what format_message gave.   *)

\* the tool has dispatched and has got an answer
Answered == pc # "invoke"

\* format_message has been entered at some point of the invocation
EnteredFormat == Formatting \/ pc = "raised" \/ formatted # EmptyDict \/ msg # EmptyDict

C13_OneDispatchOutcomeToValue ==
    /\ Len(requests) = (IF Answered THEN 1 ELSE 0)
    /\ \A i \in DOMAIN requests :
          /\ requests[i].method = "GET"
          /\ requests[i].path.resource =
                CASE tool \in {"gmail_list_messages", "gmail_search_messages",
                               "gmail_get_message"} -> "messages"
                  [] tool \in {"gmail_list_threads", "gmail_get_thread"} -> "threads"
                  [] tool = "gmail_list_labels" -> "labels"
                  [] tool = "gmail_get_profile" -> "profile"
    /\ ~response.success =>
          /\ pc \in {"invoke", "dispatch", "done"}
          /\ exc = "none"
          /\ ~EnteredFormat
          /\ pc = "done" => ret = JsonDumps([error |-> response.error.message])
    /\ (response.success /\ response.body = EmptyDict) =>
          /\ pc \in {"invoke", "dispatch", "done"}
          /\ ~EnteredFormat
          /\ pc = "done" => ret = JsonDumps(EmptyDict)
    /\ EnteredFormat =>
          /\ response.success
          /\ response.body # EmptyDict
          /\ tool \in GetTools
    /\ (pc = "done" /\ response.success /\ response.body # EmptyDict) =>
          /\ tool \in PassTools => ret = JsonDumps(response.body)
          /\ tool = "gmail_get_message" => ret = JsonDumps(formatted)
          /\ tool = "gmail_get_thread" => ret = JsonDumps(response.body)
    /\ pc = "done" => exc = "none"

\* gmail_get_message has returned the error object of a refused dispatch
C13_Witness ==
    /\ tool = "gmail_get_message"
    /\ pc = "done"
    /\ ~response.success
    /\ Len(requests) = 1
    /\ ret = JsonDumps([error |-> "denied"])

----------------------------------------------------------------------------
\* the body of an AuthenticationError carries a connect_url: a non-empty
\* one at its top level or in its "detail"
CarriedUrls(b) ==
    IF b.type # "dict" THEN {}
    ELSE {u \in {PyGet(b, "connect_url", PyNone)} : Truthy(u)}
         \cup LET d == PyGet(b, "detail", PyNone)
              IN IF d.type # "dict" THEN {}
                 ELSE {u \in {PyGet(d, "connect_url", PyNone)} : Truthy(u)}

FirstOutcome == retry.fn[1]

\* the first call raised an AuthenticationError that carries no connect_url
NoUrlError ==
    /\ retry.calls >= 1
    /\ FirstOutcome.kind = "AuthenticationError"
    /\ CarriedUrls(FirstOutcome.body) = {}

\* fn is invoked at most twice, and a second time only after the first
\* call raised an AuthenticationError carrying a connect_url, the browser
\* was opened on that URL and the user confirmed
SecondCallGuarded ==
    /\ retry.calls <= 2
    /\ retry.calls = 2 =>
          /\ FirstOutcome.kind = "AuthenticationError"
          /\ Len(retry.browser) = 1
          /\ retry.browser[1] \in CarriedUrls(FirstOutcome.body)
          /\ retry.confirmed

\* any other exception of the first call propagates without retry, and a
\* failure of the second call propagates with no third attempt
FailuresPropagate ==
    /\ (retry.calls >= 1 /\ FirstOutcome.kind \in OtherErrors) =>
          /\ retry.calls = 1
          /\ retry.browser = <<>>
          /\ retry.pc = "raised" /\ retry.exc = FirstOutcome.kind
    /\ (retry.calls = 2 /\ retry.fn[2].kind # "return") =>
          /\ retry.pc = "raised" /\ retry.exc = retry.fn[2].kind

(* C14: in every execution of with_oauth_retry fn is invoked at most       *)
(* twice; a second invocation happens only after the first raised an       *)
(* AuthenticationError whose body carries a connect_url, the browser was   *)
(* opened on that URL and the user confirmed; an AuthenticationError       *)
(* without connect_url is re-raised, with no second invocation and no      *)
(* browser opened; any other exception propagates without retry; a         *)
(* failure of the second invocation propagates with no third attempt.      *)
C14_RetryAtMostOnce ==
    retry.pc # "idle" =>
        /\ SecondCallGuarded
        /\ FailuresPropagate
        /\ NoUrlError =>
              /\ retry.calls = 1
              /\ retry.browser = <<>>
              /\ retry.pc \in {"except", "raised"}
              /\ retry.pc = "raised" => retry.exc = "AuthenticationError"

\* what holds of an AuthenticationError without connect_url: no second
\* invocation and no browser, the exception raised being either the
\* AuthenticationError or the AttributeError of the handler
NoUrlNoRetry ==
    (retry.pc # "idle" /\ NoUrlError) =>
        /\ retry.calls = 1
        /\ retry.browser = <<>>
        /\ retry.pc \in {"except", "raised"}
        /\ retry.pc = "raised" => retry.exc \in {"AuthenticationError", "AttributeError"}

\* the retry discipline, the re-raise apart
RetryDiscipline ==
    retry.pc # "idle" => (SecondCallGuarded /\ FailuresPropagate /\ NoUrlNoRetry)

\* the second call has been made, after the browser was opened on the URL
\* found in "detail" and the user confirmed, and it has failed
RetriedOnce ==
    /\ retry.pc = "raised"
    /\ retry.calls = 2
    /\ FirstOutcome.body = PyDict([detail |-> PyDict([connect_url |-> PyStr("https://as/connect/2")])])
    /\ retry.browser = <<PyStr("https://as/connect/2")>>
    /\ retry.exc = "AuthenticationError"

====
